---- MODULE Spec2Model ----
(***************************************************************************)
(* A model of the three exercises of the repository:                       *)
(*   ex0/stream_processor.py  DataProcessor and its Numeric, Text and Log  *)
(*                            variants (validate / analyze / format_output *)
(*                            driven by process);                          *)
(*   ex1/data_stream.py       SensorStream, TransactionStream, EventStream *)
(*                            and the StreamProcessor registry;            *)
(*   ex2/nexus_pipeline.py    ProcessingPipeline, its stages, the three    *)
(*                            adapters and NexusManager.                   *)
(*                                                                         *)
(* Python strings that the code inspects character by character (split,    *)
(* strip, upper, startswith, int, float) are sequences of one-character    *)
(* strings.  Strings the code only builds (return values, printed lines)   *)
(* are TLA+ strings built with \o.  A Python value of type Any is a record *)
(* [t, i, s, l]: its type tag and its integer, string and list payloads.   *)
(* A raised exception is the field "raised" of a call's outcome.           *)
(***************************************************************************)
EXTENDS Integers, Sequences, FiniteSets, TLC

VARIABLES
    payload,    \* ex2: the value the caller hands to a pipeline
    own,        \* ex2: the list object each pipeline object created in __init__
    ref,        \* ex2: whose list object each pipeline's stages attribute names
    bound,      \* ex2: the adapters on which "a.stages = pipeline.stages" was run
    added,      \* ex2: the stages registered on each pipeline, in call order
    grown,      \* ex2: add_stage has been called through a bound adapter
    run,        \* ex2: the last process call: its target, events and return value
    batches,    \* ex1: the list of batches the caller hands to the StreamProcessor
    streams,    \* ex1: StreamProcessor.streams
    summary,    \* ex1: the outcome of the last process_batches call
    batch,      \* ex1: the batch the caller hands to a stream
    stream,     \* ex1: the DataStream object in use: [cls, stream_id, stream_type]
    report,     \* ex1: the outcome of the last process_batch call
    printed,    \* ex1: the lines that call printed
    input,      \* ex0: the value the caller holds and hands to the handler
    handler,    \* ex0: the DataProcessor object in use: [kind, name, silent]
    call,       \* ex0: the last call made on it and its outcome
    prev,       \* ex0: the call before it on a handler of the same class
    notices     \* ex0: the lines that call printed

pvars == <<payload, own, ref, bound, added, grown, run>>

rvars == <<batches, streams, summary>>

svars == <<batch, stream, report, printed>>

hvars == <<input, handler, call, prev, notices>>

vars == <<payload, own, ref, bound, added, grown, run, batches, streams, summary,
          batch, stream, report, printed, input, handler, call, prev, notices>>

-----------------------------------------------------------------------------
(* Bounds of the model *)

MaxStrLen == 3      \* longest enumerated string
MaxListLen == 3     \* longest enumerated list
MaxBatchLen == 3    \* longest enumerated batch
MaxBatches == 3     \* most batches handed to process_batches
MaxStreams == 3     \* most streams registered
MaxStages == 3      \* most stages held by all stage lists together

-----------------------------------------------------------------------------
(* Python strings *)

Whitespace == {" ", "\t", "\n", "\r", "\f"}

LowerCase == <<"a","b","c","d","e","f","g","h","i","j","k","l","m",
               "n","o","p","q","r","s","t","u","v","w","x","y","z">>

UpperCase == <<"A","B","C","D","E","F","G","H","I","J","K","L","M",
               "N","O","P","Q","R","S","T","U","V","W","X","Y","Z">>

DigitChar == <<"0","1","2","3","4","5","6","7","8","9">>

\* the text of a character sequence
RECURSIVE Str(_)
Str(cs) == IF cs = <<>> THEN "" ELSE Head(cs) \o Str(Tail(cs))

\* str.upper() on one character, then on a string
UpperChar(c) ==
    IF \E k \in 1..26 : LowerCase[k] = c
    THEN UpperCase[CHOOSE k \in 1..26 : LowerCase[k] = c]
    ELSE c

upper(cs) == [k \in 1..Len(cs) |-> UpperChar(cs[k])]

\* str.lstrip(), str.rstrip(), str.strip()
RECURSIVE lstrip(_)
lstrip(cs) ==
    IF cs # <<>> /\ Head(cs) \in Whitespace THEN lstrip(Tail(cs)) ELSE cs

RECURSIVE rstrip(_)
rstrip(cs) ==
    IF cs # <<>> /\ cs[Len(cs)] \in Whitespace
    THEN rstrip(SubSeq(cs, 1, Len(cs) - 1))
    ELSE cs

strip(cs) == rstrip(lstrip(cs))

\* sep in s, for a one-character sep
contains(cs, sep) == \E k \in 1..Len(cs) : cs[k] = sep

\* s.split(sep): every piece between occurrences of sep
RECURSIVE split(_, _)
split(cs, sep) ==
    IF ~contains(cs, sep)
    THEN <<cs>>
    ELSE LET k == CHOOSE j \in 1..Len(cs) :
                      cs[j] = sep /\ \A m \in 1..(j - 1) : cs[m] # sep
         IN  <<SubSeq(cs, 1, k - 1)>> \o split(SubSeq(cs, k + 1, Len(cs)), sep)

\* a faulty split(sep, 1): it splits at the last sep (rsplit)
split1_last(cs, sep) ==
    IF ~contains(cs, sep)
    THEN <<cs>>
    ELSE LET k == CHOOSE j \in 1..Len(cs) :
                      cs[j] = sep /\ \A m \in (j + 1)..Len(cs) : cs[m] # sep
         IN  <<SubSeq(cs, 1, k - 1), SubSeq(cs, k + 1, Len(cs))>>

\* s.split(sep, 1): at most one split, at the first sep
split1(cs, sep) ==
    IF ~contains(cs, sep)
    THEN <<cs>>
    ELSE LET k == CHOOSE j \in 1..Len(cs) :
                      cs[j] = sep /\ \A m \in 1..(j - 1) : cs[m] # sep
         IN  <<SubSeq(cs, 1, k - 1), SubSeq(cs, k + 1, Len(cs))>>

\* s.split(): the maximal runs of non-whitespace characters
RECURSIVE splitws(_)
splitws(cs) ==
    LET s == lstrip(cs) IN
    IF s = <<>>
    THEN <<>>
    ELSE LET n == IF \E j \in 1..Len(s) : s[j] \in Whitespace
                  THEN (CHOOSE j \in 1..Len(s) :
                            s[j] \in Whitespace
                            /\ \A m \in 1..(j - 1) : s[m] \notin Whitespace) - 1
                  ELSE Len(s)
         IN  <<SubSeq(s, 1, n)>> \o splitws(SubSeq(s, n + 1, Len(s)))

\* s.startswith(p)
startswith(cs, p) == Len(cs) >= Len(p) /\ SubSeq(cs, 1, Len(p)) = p

-----------------------------------------------------------------------------
(* Python numbers and their text *)

RECURSIVE NatStr(_)
NatStr(n) ==
    IF n < 10 THEN DigitChar[n + 1]
    ELSE NatStr(n \div 10) \o DigitChar[(n % 10) + 1]

\* str(n) of an int
IntStr(n) == IF n < 0 THEN "-" \o NatStr(-n) ELSE NatStr(n)

Abs(n) == IF n < 0 THEN -n ELSE n

RECURSIVE GCD(_, _)
GCD(a, b) == IF b = 0 THEN a ELSE GCD(b, a % b)

\* A float is the rational it stands for, in lowest terms: [num, den], den > 0.
Float(n, d) ==
    LET g == GCD(Abs(n), d) IN [num |-> n \div g, den |-> d \div g]

\* x + y of two floats
FloatAdd(x, y) == Float(x.num * y.den + y.num * x.den, x.den * y.den)

RECURSIVE StripTwoFive(_)
StripTwoFive(d) ==
    IF d % 2 = 0 THEN StripTwoFive(d \div 2)
    ELSE IF d % 5 = 0 THEN StripTwoFive(d \div 5)
    ELSE d

\* the digits after the point of r / d, r < d, for a terminating expansion
RECURSIVE FracDigits(_, _)
FracDigits(r, d) ==
    IF r = 0 THEN ""
    ELSE DigitChar[((r * 10) \div d) + 1] \o FracDigits((r * 10) % d, d)

\* str(x) of a float.  A value with a terminating decimal expansion prints as
\* that expansion ("3.0", "2.5", "-0.25").  The digits of any other value
\* depend on binary rounding and are left symbolic: "float(4/3)".
FloatStr(x) ==
    IF StripTwoFive(x.den) = 1
    THEN LET a == Abs(x.num) IN
         (IF x.num < 0 THEN "-" ELSE "")
         \o NatStr(a \div x.den) \o "."
         \o (IF a % x.den = 0 THEN "0" ELSE FracDigits(a % x.den, x.den))
    ELSE "float(" \o IntStr(x.num) \o "/" \o IntStr(x.den) \o ")"

-----------------------------------------------------------------------------
(* Python values of type Any *)

PyNone == [t |-> "none", i |-> 0, s |-> <<>>, l |-> <<>>]
PyInt(n) == [t |-> "int", i |-> n, s |-> <<>>, l |-> <<>>]
PyStr(cs) == [t |-> "str", i |-> 0, s |-> cs, l |-> <<>>]
PyList(xs) == [t |-> "list", i |-> 0, s |-> <<>>, l |-> xs]

\* repr(x) of a list element (the strings enumerated hold no quote and no escape)
ElemRepr(x) ==
    CASE x.t = "int" -> IntStr(x.i)
      [] x.t = "str" -> "'" \o Str(x.s) \o "'"
      [] OTHER -> "None"

RECURSIVE JoinRepr(_)
JoinRepr(xs) ==
    IF xs = <<>> THEN ""
    ELSE IF Len(xs) = 1 THEN ElemRepr(xs[1])
    ELSE ElemRepr(xs[1]) \o ", " \o JoinRepr(Tail(xs))

\* str(x), as an f-string renders {x}
PyText(x) ==
    CASE x.t = "int" -> IntStr(x.i)
      [] x.t = "str" -> Str(x.s)
      [] x.t = "list" -> "[" \o JoinRepr(x.l) \o "]"
      [] OTHER -> "None"

\* sum(data) of a list of ints
RECURSIVE sum(_)
sum(xs) == IF xs = <<>> THEN 0 ELSE Head(xs).i + sum(Tail(xs))

-----------------------------------------------------------------------------
(* ex0: DataProcessor and its variants *)

\* DataProcessor.__init__, and the names the subclasses pass to it
DataProcessor(kind, name, silent) ==
    [kind |-> kind, name |-> name, silent |-> silent]

NumericProcessor(silent) == DataProcessor("numeric", "Numeric Processor", silent)
TextProcessor(silent) == DataProcessor("text", "Text Processor", silent)
LogProcessor(silent) == DataProcessor("log", "Log Processor", silent)

\* what __init__ prints
init_notices(h) ==
    IF ~h.silent THEN <<"\nInitializing " \o h.name \o "...">> ELSE <<>>

\* the outcome of a call: a returned value, or an exception raised
Return(v) == [raised |-> "", value |-> v]
Raise(e) == [raised |-> e, value |-> PyNone]

\* isinstance(x, (int, float)) for one element
IsNumber(x) == x.t = "int"

\* DataProcessor.validate
DataProcessor_validate(data) == TRUE

\* NumericProcessor.validate: a list whose elements are all numbers
NumericProcessor_validate(data) ==
    data.t = "list" /\ \A k \in 1..Len(data.l) : IsNumber(data.l[k])

\* TextProcessor.validate
TextProcessor_validate(data) == data.t = "str"

\* LogProcessor.validate
LogProcessor_validate(data) == data.t = "str" /\ contains(data.s, ":")

\* a faulty validate: in NumericProcessor "return True" sits under
\* "if not self.silent", so a silent handler rejects every input
validate_silent(h, data) ==
    CASE h.kind = "numeric" -> ~h.silent /\ NumericProcessor_validate(data)
      [] h.kind = "text" -> TextProcessor_validate(data)
      [] h.kind = "log" -> LogProcessor_validate(data)
      [] OTHER -> DataProcessor_validate(data)

\* validate, dispatched on the class of the handler
validate(h, data) ==
    CASE h.kind = "numeric" -> NumericProcessor_validate(data)
      [] h.kind = "text" -> TextProcessor_validate(data)
      [] h.kind = "log" -> LogProcessor_validate(data)
      [] OTHER -> DataProcessor_validate(data)

\* what validate prints: one line, when the data is valid and not silent
validate_notices(h, data) ==
    IF validate(h, data) /\ ~h.silent
    THEN CASE h.kind = "numeric" -> <<"Validation: Numeric data verified">>
           [] h.kind = "text" -> <<"Validation: Text data verified">>
           [] h.kind = "log" -> <<"Validation: Log entry verified">>
           [] OTHER -> <<>>
    ELSE <<>>

\* DataProcessor.analyze: the data as it is
DataProcessor_analyze(data) == Return(data)

\* a faulty NumericProcessor.analyze: floor division, sum(data) // len(data)
NumericProcessor_analyze_floordiv(data) ==
    IF Len(data.l) = 0
    THEN Raise("ZeroDivisionError")
    ELSE Return([count |-> Len(data.l),
                 sum |-> sum(data.l),
                 avg |-> Float(sum(data.l) \div Len(data.l), 1)])

\* NumericProcessor.analyze: sum(data) / len(data) raises on an empty list
NumericProcessor_analyze(data) ==
    IF Len(data.l) = 0
    THEN Raise("ZeroDivisionError")
    ELSE Return([count |-> Len(data.l),
                 sum |-> sum(data.l),
                 avg |-> Float(sum(data.l), Len(data.l))])

\* a faulty TextProcessor.analyze: split(" ") instead of split()
TextProcessor_analyze_splitspace(data) ==
    Return([chars |-> Len(data.s) + 1, words |-> Len(split(data.s, " "))])

\* TextProcessor.analyze
TextProcessor_analyze(data) ==
    Return([chars |-> Len(data.s) + 1, words |-> Len(splitws(data.s))])

\* LogProcessor.analyze: level, message = data.split(":", 1)
LogProcessor_analyze(data) ==
    LET parts == split1(data.s, ":") IN
    IF Len(parts) # 2
    THEN Raise("ValueError")
    ELSE Return([level |-> upper(strip(parts[1])), message |-> strip(parts[2])])

analyze(h, data) ==
    CASE h.kind = "numeric" -> NumericProcessor_analyze(data)
      [] h.kind = "text" -> TextProcessor_analyze(data)
      [] h.kind = "log" -> LogProcessor_analyze(data)
      [] OTHER -> DataProcessor_analyze(data)

\* DataProcessor.format_output
DataProcessor_format_output(result) == "Output: " \o PyText(result)

\* NumericProcessor.format_output
NumericProcessor_format_output(result) ==
    "Output: Processed " \o IntStr(result.count) \o " numeric values, "
    \o "sum=" \o IntStr(result.sum) \o ", avg=" \o FloatStr(result.avg)

\* TextProcessor.format_output
TextProcessor_format_output(result) ==
    "Output: Processed text: "
    \o IntStr(result.chars) \o " characters, " \o IntStr(result.words) \o " words"

\* the tag LogProcessor.format_output chooses
LogTag(result) == IF result.level = <<"E","R","R","O","R">> THEN "ALERT" ELSE "INFO"

\* LogProcessor.format_output
LogProcessor_format_output(result) ==
    "Output: [" \o LogTag(result) \o "] " \o Str(result.level) \o " level detected: "
    \o Str(result.message)

format_output(h, result) ==
    CASE h.kind = "numeric" -> NumericProcessor_format_output(result)
      [] h.kind = "text" -> TextProcessor_format_output(result)
      [] h.kind = "log" -> LogProcessor_format_output(result)
      [] OTHER -> DataProcessor_format_output(result)

\* what process prints before it validates
process_notices(h, data) ==
    IF h.silent THEN <<>>
    ELSE IF data.t = "str"
    THEN <<"Processing data: \"" \o Str(data.s) \o "\"">>
    ELSE <<"Processing data: " \o PyText(data)>>

NoAnalysis == [none |-> TRUE]

\* a faulty process: it analyzes and formats whatever validate says
process_unguarded(h, data) ==
    LET a == analyze(h, data) IN
    IF a.raised # ""
    THEN [op |-> "process", data |-> data, calls |-> <<"validate", "analyze">>,
          valid |-> validate(h, data), analysis |-> NoAnalysis,
          raised |-> a.raised, result |-> ""]
    ELSE [op |-> "process", data |-> data,
          calls |-> <<"validate", "analyze", "format_output">>,
          valid |-> validate(h, data), analysis |-> a.value,
          raised |-> "", result |-> format_output(h, a.value)]

\* DataProcessor.process: the methods it calls, in order, and what comes back
process(h, data) ==
    IF ~validate(h, data)
    THEN [op |-> "process", data |-> data, calls |-> <<"validate">>,
          valid |-> FALSE, analysis |-> NoAnalysis,
          raised |-> "", result |-> "Invalid data"]
    ELSE LET a == analyze(h, data) IN
         IF a.raised # ""
         THEN [op |-> "process", data |-> data, calls |-> <<"validate", "analyze">>,
               valid |-> TRUE, analysis |-> NoAnalysis,
               raised |-> a.raised, result |-> ""]
         ELSE [op |-> "process", data |-> data,
               calls |-> <<"validate", "analyze", "format_output">>,
               valid |-> TRUE, analysis |-> a.value,
               raised |-> "", result |-> format_output(h, a.value)]

NoHandler == [kind |-> "none", name |-> "", silent |-> TRUE]

NoCall == [op |-> "none", data |-> PyNone, calls |-> <<>>, valid |-> FALSE,
           analysis |-> NoAnalysis, raised |-> "", result |-> ""]

NoPrev == [op |-> "none", silent |-> TRUE, valid |-> FALSE, raised |-> "", result |-> ""]

\* the latest completed call, as the next operation finds it: what a caller
\* keeps of it is the flag of the handler and what came back
Earlier ==
    IF call.op # "none"
    THEN [op |-> call.op, silent |-> handler.silent, valid |-> call.valid,
          raised |-> call.raised, result |-> call.result]
    ELSE prev

-----------------------------------------------------------------------------
(* The inputs enumerated *)

SeqsUpTo(S, n) == UNION {[1..k -> S] : k \in 0..n}

Alphabet == {"a", " ", ":"}

Strings == SeqsUpTo(Alphabet, MaxStrLen)

\* log lines: a level, padded or not, a colon, and any enumerated remainder
Levels == {<<"E","R","R","O","R">>, <<"e","r","r","o","r">>, <<"E","r","r","O","r">>,
           <<"E","R","R","O">>, <<"I","N","F","O">>, <<"w","a","r","n">>}

Pads == {<<>>, <<" ">>, <<"\t", " ">>}

LogLines ==
    {p \o lv \o q \o <<":">> \o r : p \in Pads, lv \in Levels, q \in Pads, r \in Strings}

\* the three inputs of main
HelloNexusWorld ==
    <<"H","e","l","l","o"," ","N","e","x","u","s"," ","W","o","r","l","d">>

ConnectionTimeout ==
    <<"E","R","R","O","R",":"," ","C","o","n","n","e","c","t","i","o","n"," ",
      "t","i","m","e","o","u","t">>

OneToFive == <<PyInt(1), PyInt(2), PyInt(3), PyInt(4), PyInt(5)>>

TextInputs == Strings \cup LogLines \cup {HelloNexusWorld, ConnectionTimeout}

Elems == {PyInt(-3), PyInt(0), PyInt(2), PyInt(5), PyStr(<<"a">>)}

ListInputs == SeqsUpTo(Elems, MaxListLen) \cup {OneToFive}

\* every value handed to a handler
Inputs ==
    {PyStr(cs) : cs \in TextInputs} \cup {PyList(xs) : xs \in ListInputs}
    \cup {PyInt(7), PyNone}

-----------------------------------------------------------------------------
(* Parsing numbers: int(s) and float(s) *)

IsDigit(c) == \E k \in 1..10 : DigitChar[k] = c

DigitVal(c) == (CHOOSE k \in 1..10 : DigitChar[k] = c) - 1

AllDigits(cs) == \A k \in 1..Len(cs) : IsDigit(cs[k])

\* the value of a run of digits
RECURSIVE DigitsVal(_)
DigitsVal(cs) ==
    IF cs = <<>> THEN 0
    ELSE DigitsVal(SubSeq(cs, 1, Len(cs) - 1)) * 10 + DigitVal(cs[Len(cs)])

RECURSIVE Pow10(_)
Pow10(n) == IF n = 0 THEN 1 ELSE 10 * Pow10(n - 1)

\* a leading sign, and the text after it
SignOf(cs) == IF cs # <<>> /\ Head(cs) = "-" THEN -1 ELSE 1

Unsigned(cs) == IF cs # <<>> /\ Head(cs) \in {"+", "-"} THEN Tail(cs) ELSE cs

\* int(s): surrounding whitespace, a sign, then digits; anything else is a
\* ValueError (digit separators "_" are not enumerated)
parse_int(cs) ==
    LET u == Unsigned(strip(cs)) IN
    IF u # <<>> /\ AllDigits(u)
    THEN Return(SignOf(strip(cs)) * DigitsVal(u))
    ELSE Raise("ValueError")

\* float(s): surrounding whitespace, a sign, digits with at most one point and
\* at least one digit; anything else is a ValueError (exponents, "inf", "nan"
\* and "_" are not enumerated)
parse_float(cs) ==
    LET u == Unsigned(strip(cs))
        parts == split(u, ".")
        whole == parts[1]
        frac == IF Len(parts) = 2 THEN parts[2] ELSE <<>>
    IN  IF /\ Len(parts) <= 2
           /\ AllDigits(whole) /\ AllDigits(frac)
           /\ whole \o frac # <<>>
        THEN Return(Float(SignOf(strip(cs)) * DigitsVal(whole \o frac),
                          Pow10(Len(frac))))
        ELSE Raise("ValueError")

-----------------------------------------------------------------------------
(* ex1: DataStream and its variants *)

\* DataStream.__init__
DataStream(cls, stream_id, stream_type) ==
    [cls |-> cls, stream_id |-> stream_id, stream_type |-> stream_type]

SensorStream(stream_id) == DataStream("sensor", stream_id, "Environmental Data")
TransactionStream(stream_id) == DataStream("transaction", stream_id, "Financial Data")
EventStream(stream_id) == DataStream("event", stream_id, "System Events")

\* what the constructors print
stream_init_notices(st) ==
    << (CASE st.cls = "sensor" -> "\nInitializing Sensor Stream..."
          [] st.cls = "transaction" -> "\nInitializing Transaction Stream..."
          [] OTHER -> "\nInitializing Event Stream..."),
       "Stream ID: " \o st.stream_id \o ", Type: " \o st.stream_type >>

\* ', '.join(data)
RECURSIVE JoinItems(_)
JoinItems(data) ==
    IF data = <<>> THEN ""
    ELSE IF Len(data) = 1 THEN Str(data[1])
    ELSE Str(data[1]) \o ", " \o JoinItems(Tail(data))

\* float(d.split(":")[1]) of one item: IndexError without a colon
SensorValue(d) ==
    LET parts == split(d, ":") IN
    IF Len(parts) < 2 THEN Raise("IndexError") ELSE parse_float(parts[2])

\* [float(d.split(":")[1]) for d in data if d.startswith("temp")]: the values
\* in order, up to the first item that raises
RECURSIVE SensorTemps(_)
SensorTemps(data) ==
    IF data = <<>> THEN Return(<<>>)
    ELSE IF ~startswith(Head(data), <<"t","e","m","p">>) THEN SensorTemps(Tail(data))
    ELSE LET v == SensorValue(Head(data)) IN
         IF v.raised # "" THEN v
         ELSE LET rest == SensorTemps(Tail(data)) IN
              IF rest.raised # "" THEN rest
              ELSE Return(<<v.value>> \o rest.value)

ZeroFloat == [num |-> 0, den |-> 1]

\* avg = temps[0] if temps else 0.0
SensorAvg(temps) == IF temps # <<>> THEN temps[1] ELSE ZeroFloat

NoReport == [op |-> "none", raised |-> "", count |-> 0, avg |-> ZeroFloat,
             net |-> 0, errors |-> 0]

\* SensorStream.process_batch: what it reports
SensorStream_process_batch(data) ==
    LET temps == SensorTemps(data) IN
    IF temps.raised # ""
    THEN [NoReport EXCEPT !.op = "process_batch", !.raised = temps.raised]
    ELSE [NoReport EXCEPT !.op = "process_batch", !.count = Len(data),
                          !.avg = SensorAvg(temps.value)]

\* a faulty step: only "buy" subtracts, every other action adds
TransactionDelta_buy(item) ==
    LET parts == split(item, ":") IN
    IF Len(parts) # 2 THEN Raise("ValueError")
    ELSE LET v == parse_int(parts[2]) IN
         IF v.raised # "" THEN v
         ELSE Return(IF parts[1] = <<"b","u","y">> THEN -v.value ELSE v.value)

\* one step of the loop of TransactionStream.process_batch:
\* action, value = item.split(":"); value = int(value)
TransactionDelta(item) ==
    LET parts == split(item, ":") IN
    IF Len(parts) # 2 THEN Raise("ValueError")
    ELSE LET v == parse_int(parts[2]) IN
         IF v.raised # "" THEN v
         ELSE Return(IF parts[1] = <<"s","e","l","l">> THEN v.value ELSE -v.value)

\* the loop: net after the items, or the first exception
RECURSIVE TransactionNet(_, _)
TransactionNet(data, net) ==
    IF data = <<>> THEN Return(net)
    ELSE LET d == TransactionDelta(Head(data)) IN
         IF d.raised # "" THEN d
         ELSE TransactionNet(Tail(data), net + d.value)

\* TransactionStream.process_batch: what it reports
TransactionStream_process_batch(data) ==
    LET net == TransactionNet(data, 0) IN
    IF net.raised # ""
    THEN [NoReport EXCEPT !.op = "process_batch", !.raised = net.raised]
    ELSE [NoReport EXCEPT !.op = "process_batch", !.count = Len(data),
                          !.net = net.value]

\* a faulty count: every item that starts with "error" is counted
RECURSIVE CountErrors_prefix(_)
CountErrors_prefix(data) ==
    IF data = <<>> THEN 0
    ELSE (IF startswith(Head(data), <<"e","r","r","o","r">>) THEN 1 ELSE 0)
         + CountErrors_prefix(Tail(data))

\* len([d for d in data if d == "error"])
RECURSIVE CountErrors(_)
CountErrors(data) ==
    IF data = <<>> THEN 0
    ELSE (IF Head(data) = <<"e","r","r","o","r">> THEN 1 ELSE 0)
         + CountErrors(Tail(data))

\* EventStream.process_batch: what it reports
EventStream_process_batch(data) ==
    [NoReport EXCEPT !.op = "process_batch", !.count = Len(data),
                     !.errors = CountErrors(data)]

process_batch(st, data) ==
    CASE st.cls = "sensor" -> SensorStream_process_batch(data)
      [] st.cls = "transaction" -> TransactionStream_process_batch(data)
      [] OTHER -> EventStream_process_batch(data)

\* format(net, "+"): the sign is always written
SignedStr(n) == IF n < 0 THEN IntStr(n) ELSE "+" \o NatStr(n)

\* the lines process_batch prints: the batch, then, unless an exception cut the
\* call short, the analysis
process_batch_prints(st, data) ==
    LET r == process_batch(st, data)
        head == CASE st.cls = "sensor" -> "Processing sensor batch: ["
                  [] st.cls = "transaction" -> "Processing transaction batch: ["
                  [] OTHER -> "Processing event batch: ["
        tail == CASE st.cls = "sensor" ->
                       "Sensor analysis: " \o IntStr(r.count)
                       \o " readings processed, avg temp: " \o FloatStr(r.avg) \o "°C"
                  [] st.cls = "transaction" ->
                       "Transaction analysis: " \o IntStr(r.count)
                       \o " operations, net flow: " \o SignedStr(r.net) \o " units"
                  [] OTHER ->
                       "Event analysis: " \o IntStr(r.count) \o " events, "
                       \o IntStr(r.errors) \o " error detected"
    IN  <<head \o JoinItems(data) \o "]">>
        \o (IF r.raised = "" THEN <<tail>> ELSE <<>>)

NoStream == [cls |-> "none", stream_id |-> "", stream_type |-> ""]

-----------------------------------------------------------------------------
(* ex1: the batches enumerated *)

Temp22_5 == <<"t","e","m","p",":","2","2",".","5">>
Temp30 == <<"t","e","m","p",":","3","0">>
TempMinus4 == <<"t","e","m","p",":","-","4">>
Temperature5 == <<"t","e","m","p","e","r","a","t","u","r","e",":","5">>
Humidity65 == <<"h","u","m","i","d","i","t","y",":","6","5">>
Pressure1013 == <<"p","r","e","s","s","u","r","e",":","1","0","1","3">>
TempX == <<"t","e","m","p",":","x">>
TempBare == <<"t","e","m","p">>
Buy100 == <<"b","u","y",":","1","0","0">>
Sell150 == <<"s","e","l","l",":","1","5","0">>
Buy75 == <<"b","u","y",":","7","5">>
ErrorItem == <<"e","r","r","o","r">>
LoginItem == <<"l","o","g","i","n">>
Humidity40 == <<"h","u","m","i","d","i","t","y",":","4","0">>
Sell200 == <<"s","e","l","l",":","2","0","0">>
Buy50 == <<"b","u","y",":","5","0">>
Sell75 == <<"s","e","l","l",":","7","5">>
Buy25 == <<"b","u","y",":","2","5">>
LogoutItem == <<"l","o","g","o","u","t">>
ErrorUpper == <<"E","R","R","O","R">>
ErrorsItem == <<"e","r","r","o","r","s">>

\* well-formed and malformed "key:value" items, and plain events
Items ==
    {Temp22_5, Temp30, TempMinus4, Temperature5, Humidity65, TempX, TempBare,
     Buy100, Sell150, Buy75, ErrorItem, LoginItem, ErrorUpper, ErrorsItem}

\* the three batches of main
SensorDemo == <<Temp22_5, Humidity65, Pressure1013>>

TransactionDemo == <<Buy100, Sell150, Buy75>>

EventDemo == <<LoginItem, ErrorItem, LogoutItem>>

\* the three batches main hands to process_batches
SensorDemo2 == <<Temp30, Humidity40>>

TransactionDemo2 == <<Sell200, Buy50, Sell75, Buy25>>

EventDemo2 == <<LoginItem, LogoutItem, ErrorItem>>

BatchLists == SeqsUpTo({<<>>, SensorDemo2, TransactionDemo2, EventDemo2}, MaxBatches)

Batches == SeqsUpTo(Items, MaxBatchLen) \cup {SensorDemo, TransactionDemo, EventDemo}

-----------------------------------------------------------------------------
(* ex1: StreamProcessor *)

\* StreamProcessor.register_stream
register_stream(ss, st) == Append(ss, st)

\* the three lines process_batches prints after its header, each reading one
\* fixed index of batches
BatchLines ==
    << [cls |-> "sensor", label |-> "- Sensor data: ", unit |-> " readings processed"],
       [cls |-> "transaction", label |-> "- Transaction data: ",
        unit |-> " operations processed"],
       [cls |-> "event", label |-> "- Event data: ", unit |-> " events processed"] >>

NoSummary == [op |-> "none", raised |-> "", entries |-> <<>>, lines |-> <<>>]

\* StreamProcessor.process_batches: batches[0], batches[1], batches[2] in turn;
\* the first index past the end raises IndexError
process_batches(bs) ==
    LET n == IF Len(bs) < 3 THEN Len(bs) ELSE 3 IN
    [op |-> "process_batches",
     raised |-> IF Len(bs) < 3 THEN "IndexError" ELSE "",
     entries |-> [k \in 1..n |-> [cls |-> BatchLines[k].cls, size |-> Len(bs[k])]],
     lines |-> <<"\n=== Polymorphic Stream Processing ===",
                 "Processing mixed stream types through unified interface...",
                 "Batch 1 Results:">>
               \o [k \in 1..n |-> BatchLines[k].label \o IntStr(Len(bs[k]))
                                  \o BatchLines[k].unit]]

-----------------------------------------------------------------------------
(* ex2: ProcessingPipeline, the stages, the adapters, NexusManager *)

Pipeline == "pipeline"

Adapters == {"json", "csv", "stream"}

Objects == {Pipeline} \cup Adapters

StageClasses == {"InputStage", "TransformStage", "OutputStage"}

\* InputStage.execute, TransformStage.execute, OutputStage.execute
InputStage_execute(x) == x

TransformStage_execute(x) == x

OutputStage_execute(x) == x

execute(stage, x) ==
    CASE stage = "InputStage" -> InputStage_execute(x)
      [] stage = "TransformStage" -> TransformStage_execute(x)
      [] OTHER -> OutputStage_execute(x)

\* self.stages of an object: the list its stages attribute names
Stages(o) == own[ref[o]]

\* ProcessingPipeline.add_stage: self.stages.append(stage), on the list object
add_stage(o, stage) == [own EXCEPT ![ref[o]] = Append(@, stage)]

\* a faulty binding: a.stages = list(pipeline.stages), a private copy
bind_stages_copy(a) ==
    [own |-> [own EXCEPT ![a] = Stages(Pipeline)], ref |-> [ref EXCEPT ![a] = a]]

\* a.stages = pipeline.stages: the attribute names the template's list object;
\* the list a.__init__ created is referenced no more and is reclaimed
bind_stages(a) ==
    [own |-> [own EXCEPT ![a] = <<>>], ref |-> [ref EXCEPT ![a] = ref[Pipeline]]]

Event(ev, text, stage, arg, out) ==
    [ev |-> ev, text |-> text, stage |-> stage, arg |-> arg, out |-> out]

Printed(text) == Event("print", text, "", PyNone, PyNone)

Executed(stage, arg) == Event("execute", "", stage, arg, execute(stage, arg))

\* a faulty fold: the loop stops before the last stage
RECURSIVE fold_short(_, _)
fold_short(stages, x) ==
    IF Len(stages) <= 1 THEN [events |-> <<>>, result |-> x]
    ELSE LET e == Executed(Head(stages), x)
             rest == fold_short(Tail(stages), e.out)
         IN  [events |-> <<e>> \o rest.events, result |-> rest.result]

\* the loop of ProcessingPipeline.process: result = stage.execute(result)
RECURSIVE fold(_, _)
fold(stages, x) ==
    IF stages = <<>> THEN [events |-> <<>>, result |-> x]
    ELSE LET e == Executed(Head(stages), x)
             rest == fold(Tail(stages), e.out)
         IN  [events |-> <<e>> \o rest.events, result |-> rest.result]

\* ProcessingPipeline.process
ProcessingPipeline_process(o, x) == fold(Stages(o), x)

\* JSONAdapter.process: it returns None
JSONAdapter_process(o, x) ==
    [events |-> << Printed("\nProcessing JSON data through pipeline..."),
                   Printed("Input: " \o PyText(x)) >>
                \o ProcessingPipeline_process(o, x).events
                \o << Printed("Transform: Enriched with metadata and validation"),
                      Printed("Output: Processed temperature reading: 23.5°C (Normal range)") >>,
     result |-> PyNone]

\* CSVAdapter.process: it returns None
CSVAdapter_process(o, x) ==
    [events |-> << Printed("\nProcessing CSV data through same pipeline..."),
                   Printed("Input: \"" \o PyText(x) \o "\"") >>
                \o ProcessingPipeline_process(o, x).events
                \o << Printed("Transform: Parsed and structured data"),
                      Printed("Output: User activity logged: 1 actions processed") >>,
     result |-> PyNone]

\* a faulty StreamAdapter.process: super().process(data) is left out, the stages
\* being identities
StreamAdapter_process_nofold(o, x) ==
    [events |-> << Printed("\nProcessing Stream data through same pipeline..."),
                   Printed("Input: " \o PyText(x)),
                   Printed("Transform: Aggregated and filtered"),
                   Printed("Output: Stream summary: 5 readings, avg: 22.1°C") >>,
     result |-> PyNone]

\* StreamAdapter.process: it returns None
StreamAdapter_process(o, x) ==
    [events |-> << Printed("\nProcessing Stream data through same pipeline..."),
                   Printed("Input: " \o PyText(x)) >>
                \o ProcessingPipeline_process(o, x).events
                \o << Printed("Transform: Aggregated and filtered"),
                      Printed("Output: Stream summary: 5 readings, avg: 22.1°C") >>,
     result |-> PyNone]

\* pipeline.process(data), dispatched on the class of the object
pipeline_process(o, x) ==
    CASE o = "json" -> JSONAdapter_process(o, x)
      [] o = "csv" -> CSVAdapter_process(o, x)
      [] o = "stream" -> StreamAdapter_process(o, x)
      [] OTHER -> ProcessingPipeline_process(o, x)

\* NexusManager.run: pipeline.process(data), its return value dropped
NexusManager_run(o, x) ==
    [op |-> "run", target |-> o, events |-> pipeline_process(o, x).events,
     result |-> PyNone]

NoRun == [op |-> "none", target |-> "", events |-> <<>>, result |-> PyNone]

\* the objects that share the template's stage list
Sharing == {Pipeline} \cup {a \in Adapters : bound[a]}

\* the objects an add_stage through o is meant to reach
Group(o) == IF o \in Sharing THEN Sharing ELSE {o}

-----------------------------------------------------------------------------
(* The states in which a part of the program has done nothing *)

HandlerIdle ==
    /\ input = PyNone /\ handler = NoHandler /\ call = NoCall /\ notices = <<>>
    /\ prev = NoPrev

StreamIdle == batch = <<>> /\ stream = NoStream /\ report = NoReport /\ printed = <<>>

RegistryIdle == batches = <<>> /\ streams = <<>> /\ summary = NoSummary

PipelineIdle ==
    /\ payload = PyNone
    /\ own = [o \in Objects |-> <<>>]
    /\ ref = [o \in Objects |-> IF o = Pipeline THEN Pipeline ELSE "none"]
    /\ bound = [a \in Adapters |-> FALSE]
    /\ added = [o \in Objects |-> <<>>]
    /\ grown = FALSE
    /\ run = NoRun

-----------------------------------------------------------------------------
(* ex1: the operations on one stream *)

StreamInit ==
    /\ HandlerIdle /\ RegistryIdle /\ PipelineIdle
    /\ batch \in Batches
    /\ stream = NoStream
    /\ report = NoReport
    /\ printed = <<>>

\* a stream is constructed
NewStream ==
    /\ \E st \in {SensorStream("SENSOR_001"), TransactionStream("TRANS_001"),
                  EventStream("EVENT_001")} :
          /\ stream' = st
          /\ printed' = stream_init_notices(st)
    /\ report' = NoReport
    /\ UNCHANGED <<batch, hvars, rvars, pvars>>

\* stream.process_batch(batch)
ProcessBatch ==
    /\ stream # NoStream
    /\ report' = process_batch(stream, batch)
    /\ printed' = process_batch_prints(stream, batch)
    /\ UNCHANGED <<batch, stream, hvars, rvars, pvars>>

StreamNext == NewStream \/ ProcessBatch

SpecStreams == StreamInit /\ [][StreamNext]_vars

-----------------------------------------------------------------------------
(* ex1: the operations on the StreamProcessor *)

RegistryInit ==
    /\ HandlerIdle /\ StreamIdle /\ PipelineIdle
    /\ batches \in BatchLists
    /\ streams = <<>>
    /\ summary = NoSummary

\* processor.register_stream(stream)
RegisterStream ==
    /\ Len(streams) < MaxStreams
    /\ \E st \in {SensorStream("SENSOR_001"), TransactionStream("TRANS_001"),
                  EventStream("EVENT_001")} :
          streams' = register_stream(streams, st)
    /\ summary' = NoSummary
    /\ UNCHANGED <<batches, hvars, svars, pvars>>

\* processor.process_batches(batches)
ProcessBatches ==
    /\ summary' = process_batches(batches)
    /\ UNCHANGED <<batches, streams, hvars, svars, pvars>>

RegistryNext == RegisterStream \/ ProcessBatches

SpecRegistry == RegistryInit /\ [][RegistryNext]_vars

-----------------------------------------------------------------------------
(* ex2: the operations *)

PipelineData ==
    {PyStr(<<"u","s","e","r",",","a","c","t","i","o","n">>), PyInt(7)}

TotalStages == Len(own["pipeline"]) + Len(own["json"]) + Len(own["csv"])
               + Len(own["stream"])

\* main has built the template pipeline; no adapter exists yet
PipelineInit ==
    /\ HandlerIdle /\ StreamIdle /\ RegistryIdle
    /\ payload \in PipelineData
    /\ own = [o \in Objects |-> <<>>]
    /\ ref = [o \in Objects |-> IF o = Pipeline THEN Pipeline ELSE "none"]
    /\ bound = [a \in Adapters |-> FALSE]
    /\ added = [o \in Objects |-> <<>>]
    /\ grown = FALSE
    /\ run = NoRun

\* a = JSONAdapter("PIPE_001") and the like: __init__ gives it a new, empty list
\* (pipeline_id is stored and never read)
NewAdapter ==
    /\ \E a \in Adapters :
          /\ own' = [own EXCEPT ![a] = <<>>]
          /\ ref' = [ref EXCEPT ![a] = a]
          /\ bound' = [bound EXCEPT ![a] = FALSE]
          /\ added' = [added EXCEPT ![a] = <<>>]
    /\ run' = NoRun
    /\ UNCHANGED <<payload, grown, hvars, svars, rvars>>

\* a.stages = pipeline.stages
BindStages ==
    /\ \E a \in Adapters :
          /\ ref[a] # "none"
          /\ own' = bind_stages(a).own
          /\ ref' = bind_stages(a).ref
          /\ bound' = [bound EXCEPT ![a] = TRUE]
          /\ added' = [added EXCEPT ![a] = added[Pipeline]]
    /\ run' = NoRun
    /\ UNCHANGED <<payload, grown, hvars, svars, rvars>>

\* o.add_stage(stage), through the template or through an adapter
AddStage ==
    /\ TotalStages < MaxStages
    /\ \E o \in Objects : \E stage \in StageClasses :
          /\ ref[o] # "none"
          /\ own' = add_stage(o, stage)
          /\ added' = [x \in Objects |->
                          IF x \in Group(o) THEN Append(added[x], stage) ELSE added[x]]
          /\ grown' = (grown \/ (o \in Adapters /\ bound[o]))
    /\ run' = NoRun
    /\ UNCHANGED <<payload, ref, bound, hvars, svars, rvars>>

\* o.process(payload), called directly
PipelineProcess ==
    /\ \E o \in Objects :
          /\ ref[o] # "none"
          /\ run' = [op |-> "process", target |-> o,
                     events |-> pipeline_process(o, payload).events,
                     result |-> pipeline_process(o, payload).result]
    /\ UNCHANGED <<payload, own, ref, bound, added, grown, hvars, svars, rvars>>

\* manager.run(o, payload)
ManagerRun ==
    /\ \E o \in Objects :
          /\ ref[o] # "none"
          /\ run' = NexusManager_run(o, payload)
    /\ UNCHANGED <<payload, own, ref, bound, added, grown, hvars, svars, rvars>>

PipelineNext == NewAdapter \/ BindStages \/ AddStage \/ PipelineProcess \/ ManagerRun

SpecPipeline == PipelineInit /\ [][PipelineNext]_vars

-----------------------------------------------------------------------------
(* ex0: the operations *)

HandlerInit ==
    /\ StreamIdle /\ RegistryIdle /\ PipelineIdle
    /\ input \in Inputs
    /\ handler = NoHandler
    /\ call = NoCall
    /\ prev = NoPrev
    /\ notices = <<>>

\* a handler is constructed; the earlier call is kept for comparison while the
\* class stays the same
NewHandler ==
    /\ \E silent \in BOOLEAN :
         \E h \in {DataProcessor("base", "Base Processor", silent),
                   NumericProcessor(silent), TextProcessor(silent),
                   LogProcessor(silent)} :
            /\ handler' = h
            /\ notices' = init_notices(h)
            /\ prev' = IF h.kind = handler.kind THEN Earlier ELSE NoPrev
    /\ call' = NoCall
    /\ UNCHANGED <<input, svars, rvars, pvars>>

\* handler.process(input)
Process ==
    /\ handler # NoHandler
    /\ call' = process(handler, input)
    /\ notices' = process_notices(handler, input) \o validate_notices(handler, input)
    /\ prev' = Earlier
    /\ UNCHANGED <<input, handler, svars, rvars, pvars>>

\* handler.validate(input), called on its own
Validate ==
    /\ handler # NoHandler
    /\ call' = [NoCall EXCEPT !.op = "validate", !.data = input,
                              !.calls = <<"validate">>,
                              !.valid = validate(handler, input)]
    /\ notices' = validate_notices(handler, input)
    /\ prev' = Earlier
    /\ UNCHANGED <<input, handler, svars, rvars, pvars>>

HandlerNext == NewHandler \/ Process \/ Validate

SpecHandlers == HandlerInit /\ [][HandlerNext]_vars

-----------------------------------------------------------------------------
(* Properties of ex0 *)

Called(m) == \E k \in 1..Len(call.calls) : call.calls[k] = m

\* C1: whenever process is handed an input its handler's validate rejects, it
\* returns exactly "Invalid data" and calls neither analyze nor format_output.
C1_InvalidShortCircuits ==
    (call.op = "process" /\ ~validate(handler, input))
        => /\ call.raised = ""
           /\ call.result = "Invalid data"
           /\ ~Called("analyze")
           /\ ~Called("format_output")

\* a rejected input has been processed by each variant that can reject
C1_Witness ==
    /\ call.op = "process"
    /\ handler.kind = "log"
    /\ input = PyStr(<<"a", " ", "a">>)
    /\ ~validate(handler, input)
    /\ call.result = "Invalid data"

\* C5 as claimed: no call of validate or process ends in an exception.
C5_NeverRaises == call.op \in {"process", "validate"} => call.raised = ""

\* the first colon of a string
FirstColon(cs) ==
    CHOOSE k \in 1..Len(cs) : cs[k] = ":" /\ \A m \in 1..(k - 1) : cs[m] # ":"

\* r is x without its leading and trailing whitespace
IsTrimOf(r, x) ==
    \E a \in 0..Len(x) : \E b \in 0..(Len(x) - a) :
        /\ \A k \in 1..a : x[k] \in Whitespace
        /\ \A k \in (Len(x) - b + 1)..Len(x) : x[k] \in Whitespace
        /\ r = SubSeq(x, a + 1, Len(x) - b)
        /\ r # <<>> => (r[1] \notin Whitespace /\ r[Len(r)] \notin Whitespace)

\* r is x trimmed, with every lower-case letter replaced by its upper-case one
IsUpperTrimOf(r, x) ==
    \E t \in {SubSeq(x, a, b) : a \in 1..(Len(x) + 1), b \in 0..Len(x)} :
        /\ IsTrimOf(t, x)
        /\ Len(r) = Len(t)
        /\ \A k \in 1..Len(t) :
              \/ \E j \in 1..26 : t[k] = LowerCase[j] /\ r[k] = UpperCase[j]
              \/ (\A j \in 1..26 : t[k] # LowerCase[j]) /\ r[k] = t[k]

\* C8: for a string with a colon, LogProcessor.process takes level from the
\* part before the first colon, trimmed and upper-cased, and message from the
\* whole remainder, trimmed; the output is tagged ALERT exactly when that level
\* is "ERROR" and INFO otherwise.
C8_LogSplitAndTag ==
    (handler.kind = "log" /\ call.op = "process"
     /\ input.t = "str" /\ contains(input.s, ":"))
        => LET k == FirstColon(input.s)
               lv == call.analysis.level
               msg == call.analysis.message
           IN  /\ call.raised = ""
               /\ IsUpperTrimOf(lv, SubSeq(input.s, 1, k - 1))
               /\ IsTrimOf(msg, SubSeq(input.s, k + 1, Len(input.s)))
               /\ lv = <<"E","R","R","O","R">>
                    => call.result = "Output: [ALERT] ERROR level detected: " \o Str(msg)
               /\ lv # <<"E","R","R","O","R">>
                    => call.result = "Output: [INFO] " \o Str(lv)
                                     \o " level detected: " \o Str(msg)

\* a padded lower-case "error" line whose message holds a second colon
C8_Witness ==
    /\ handler.kind = "log" /\ call.op = "process"
    /\ input = PyStr(<<" ","e","r","r","o","r"," ",":","a",":","a">>)
    /\ call.analysis.level = <<"E","R","R","O","R">>
    /\ call.analysis.message = <<"a",":","a">>
    /\ call.result = "Output: [ALERT] ERROR level detected: a:a"

\* the sum of the first n elements of a list of ints
RECURSIVE SumFirst(_, _)
SumFirst(xs, n) == IF n = 0 THEN 0 ELSE SumFirst(xs, n - 1) + xs[n].i

AllInts(xs) == \A k \in 1..Len(xs) : xs[k].t = "int"

\* C9: for a non-empty list of ints, NumericProcessor.analyze yields count =
\* length, sum = the sum of the elements and avg = sum / count, and the output
\* embeds the three values.
C9_NumericStats ==
    (handler.kind = "numeric" /\ call.op = "process"
     /\ input.t = "list" /\ input.l # <<>> /\ AllInts(input.l))
        => LET n == Len(input.l)
               total == SumFirst(input.l, n)
               a == call.analysis
           IN  /\ call.raised = ""
               /\ a.count = n
               /\ a.sum = total
               /\ a.avg.den > 0 /\ a.avg.num * n = total * a.avg.den
               /\ call.result = "Output: Processed " \o IntStr(n)
                      \o " numeric values, sum=" \o IntStr(total)
                      \o ", avg=" \o FloatStr(a.avg)

\* [1, 2, 3, 4, 5] has been processed: count 5, sum 15, avg 3.0
C9_Witness ==
    /\ handler.kind = "numeric" /\ call.op = "process"
    /\ input = PyList(OneToFive)
    /\ call.analysis.count = 5 /\ call.analysis.sum = 15
    /\ call.analysis.avg = [num |-> 3, den |-> 1]
    /\ call.result = "Output: Processed 5 numeric values, sum=15, avg=3.0"

\* the positions where a whitespace-delimited token starts
TokenStarts(cs) ==
    {k \in 1..Len(cs) :
        cs[k] \notin Whitespace /\ (k = 1 \/ cs[k - 1] \in Whitespace)}

C12_SilentChangesOnlyNotices ==
    /\ (prev.op # "none" /\ call.op # "none")
          => /\ prev.valid = call.valid
             /\ (prev.op = "process" /\ call.op = "process")
                   => prev.result = call.result /\ prev.raised = call.raised
    /\ (call.op # "none" /\ handler.silent) => notices = <<>>
    /\ (call.op = "process" /\ ~handler.silent) => notices # <<>>

\* [1, 2, 3, 4, 5] processed by a NumericProcessor that prints and then by a
\* silent one: the same string came back, only the notices differ
C12_Witness ==
    /\ handler.kind = "numeric" /\ handler.silent
    /\ input = PyList(OneToFive)
    /\ prev.op = "process" /\ ~prev.silent
    /\ call.op = "process"
    /\ call.result = "Output: Processed 5 numeric values, sum=15, avg=3.0"
    /\ prev.result = call.result
    /\ notices = <<>>

\* the same handler has processed the same input twice
C12_WitnessRepeated ==
    /\ handler.kind = "log" /\ ~handler.silent
    /\ input = PyStr(ConnectionTimeout)
    /\ prev.op = "process" /\ ~prev.silent
    /\ call.op = "process"
    /\ call.result = "Output: [ALERT] ERROR level detected: Connection timeout"
    /\ prev.result = call.result

-----------------------------------------------------------------------------
(* Properties of ex1 *)

\* an item "key:value" with one colon
HasOneColon(d) ==
    Cardinality({k \in 1..Len(d) : d[k] = ":"}) = 1

ValuePart(d) == SubSeq(d, FirstColon(d) + 1, Len(d))

KeyPart(d) == SubSeq(d, 1, FirstColon(d) - 1)

\* a well-formed sensor reading: "type:value" with a decimal value
WellFormedReading(d) ==
    HasOneColon(d) /\ parse_float(ValuePart(d)).raised = ""

\* the temperature readings of a batch, in order
TempReadings(b) ==
    LET IsTemp(d) == Len(d) >= 4 /\ SubSeq(d, 1, 4) = <<"t","e","m","p">>
    IN  SelectSeq(b, IsTemp)

\* the sum of the values of the first n readings
RECURSIVE ReadingSum(_, _)
ReadingSum(rs, n) ==
    IF n = 0 THEN ZeroFloat
    ELSE FloatAdd(ReadingSum(rs, n - 1), parse_float(ValuePart(rs[n])).value)

\* C3 as claimed: for a well-formed batch the average temperature reported is
\* the mean of the values of all "temp" items, 0.0 when there is none, and the
\* count reported is the size of the batch.
C3_SensorMean ==
    (stream.cls = "sensor" /\ report.op = "process_batch"
     /\ \A k \in 1..Len(batch) : WellFormedReading(batch[k]))
        => LET rs == TempReadings(batch)
               total == ReadingSum(rs, Len(rs))
           IN  /\ report.raised = ""
               /\ report.count = Len(batch)
               /\ report.avg = IF rs = <<>> THEN ZeroFloat
                               ELSE Float(total.num, total.den * Len(rs))

\* a well-formed transaction: "action:integer"
WellFormedTransaction(d) ==
    /\ HasOneColon(d)
    /\ LET v == ValuePart(d)
           u == IF v # <<>> /\ v[1] = "-" THEN Tail(v) ELSE v
       IN  u # <<>> /\ \A k \in 1..Len(u) : IsDigit(u[k])

TransactionValue(d) ==
    LET v == ValuePart(d) IN
    IF v[1] = "-" THEN -DigitsVal(Tail(v)) ELSE DigitsVal(v)

\* the sum of the values of the sells, and of the other items, among the first n
RECURSIVE SellSum(_, _)
SellSum(b, n) ==
    IF n = 0 THEN 0
    ELSE SellSum(b, n - 1)
         + (IF KeyPart(b[n]) = <<"s","e","l","l">> THEN TransactionValue(b[n]) ELSE 0)

RECURSIVE OtherSum(_, _)
OtherSum(b, n) ==
    IF n = 0 THEN 0
    ELSE OtherSum(b, n - 1)
         + (IF KeyPart(b[n]) # <<"s","e","l","l">> THEN TransactionValue(b[n]) ELSE 0)

\* C4: for a batch of well-formed "action:integer" items the net flow reported
\* is the sum of the sells minus the sum of all other items (0 for an empty
\* batch), and the count reported is the size of the batch.
C4_TransactionNet ==
    (stream.cls = "transaction" /\ report.op = "process_batch"
     /\ \A k \in 1..Len(batch) : WellFormedTransaction(batch[k]))
        => /\ report.raised = ""
           /\ report.count = Len(batch)
           /\ report.net = SellSum(batch, Len(batch)) - OtherSum(batch, Len(batch))

\* [buy:100, sell:150, buy:75] has been processed: net flow -25
C4_Witness ==
    /\ stream.cls = "transaction" /\ report.op = "process_batch"
    /\ batch = TransactionDemo
    /\ report.count = 3 /\ report.net = -25
    /\ printed[2] = "Transaction analysis: 3 operations, net flow: -25 units"

\* C6 as claimed: with n streams registered and n batches handed over,
\* process_batches reports, for every i, the size of batch i for stream i.
C6_PositionalPairing ==
    (summary.op = "process_batches" /\ Len(batches) = Len(streams))
        => /\ summary.raised = ""
           /\ Len(summary.entries) = Len(streams)
           /\ \A k \in 1..Len(streams) :
                 /\ summary.entries[k].cls = streams[k].cls
                 /\ summary.entries[k].size = Len(batches[k])

\* C11: EventStream.process_batch reports as error count the number of items
\* that are exactly "error" (same case, whole item) and as event count the size
\* of the batch.
C11_EventErrors ==
    (stream.cls = "event" /\ report.op = "process_batch")
        => /\ report.raised = ""
           /\ report.count = Len(batch)
           /\ report.errors =
                  Cardinality({k \in 1..Len(batch) :
                                  /\ Len(batch[k]) = 5
                                  /\ batch[k][1] = "e" /\ batch[k][2] = "r"
                                  /\ batch[k][3] = "r" /\ batch[k][4] = "o"
                                  /\ batch[k][5] = "r"})

\* [login, error, logout] has been processed: 3 events, 1 error
C11_Witness ==
    /\ stream.cls = "event" /\ report.op = "process_batch"
    /\ batch = EventDemo
    /\ report.count = 3 /\ report.errors = 1
    /\ printed[2] = "Event analysis: 3 events, 1 error detected"

\* "ERROR" and "errors" beside "error": only the exact item is counted
C11_WitnessNearMisses ==
    /\ stream.cls = "event" /\ report.op = "process_batch"
    /\ batch = <<ErrorUpper, ErrorItem, ErrorsItem>>
    /\ report.errors = 1

\* an item that is not of the shape "key:value" with a numeric value
Malformed(d) ==
    \/ \A k \in 1..Len(d) : d[k] # ":"
    \/ ~HasOneColon(d)
    \/ parse_float(ValuePart(d)).raised # ""

\* C13 as claimed: a process_batch call on a batch that contains a malformed
\* item ends without raising, for every kind of stream, so that the calls that
\* follow it in the session are still made.
C13_MalformedNeverAborts ==
    (report.op = "process_batch" /\ \E k \in 1..Len(batch) : Malformed(batch[k]))
        => report.raised = ""

-----------------------------------------------------------------------------
(* Properties of ex2 *)

\* the execute calls of the last process call, in order
ExecuteCalls == LET IsCall(e) == e.ev = "execute" IN SelectSeq(run.events, IsCall)

\* C2: process calls execute once on every registered stage, in registration
\* order, each stage handed the output of the one before (the first handed the
\* data); ProcessingPipeline.process returns the output of the last stage, which
\* is the data itself for an empty list and for any number of identity stages.
C2_FoldInOrder ==
    run.op \in {"process", "run"}
        => LET ex == ExecuteCalls
               reg == added[run.target]
           IN  /\ Len(ex) = Len(reg)
               /\ \A k \in 1..Len(ex) :
                     /\ ex[k].stage = reg[k]
                     /\ ex[k].arg = IF k = 1 THEN payload ELSE ex[k - 1].out
               /\ (run.op = "process" /\ run.target = Pipeline)
                     => /\ run.result = IF ex = <<>> THEN payload ELSE ex[Len(ex)].out
                        /\ run.result = payload

\* the three stages of main, registered in order, have run on the template
C2_Witness ==
    /\ run.op = "process" /\ run.target = Pipeline
    /\ added[Pipeline] = <<"InputStage", "TransformStage", "OutputStage">>
    /\ Len(ExecuteCalls) = 3
    /\ ExecuteCalls[3].stage = "OutputStage"
    /\ run.result = payload

\* C7: every adapter bound to the template's stage list holds the very stage
\* sequence of the template, whichever of them add_stage was called through,
\* and a process call on any of them runs all the stages registered so far.
C7_SharedStages ==
    /\ \A a \in Adapters :
          bound[a] => /\ Stages(a) = Stages(Pipeline)
                      /\ Stages(a) = added[Pipeline]
    /\ (run.op \in {"process", "run"} /\ run.target \in Sharing)
          => /\ Len(ExecuteCalls) = Len(added[Pipeline])
             /\ \A k \in 1..Len(ExecuteCalls) :
                   ExecuteCalls[k].stage = added[Pipeline][k]

\* two adapters share the template's list, a stage was added through one of
\* them, and a process call on the other ran it
C7_Witness ==
    /\ bound["json"] /\ bound["csv"] /\ grown
    /\ Stages(Pipeline) = <<"InputStage", "OutputStage">>
    /\ Stages("json") = Stages(Pipeline) /\ Stages("csv") = Stages(Pipeline)
    /\ run.op = "process" /\ run.target = "csv"
    /\ Len(ExecuteCalls) = 2

\* the notice an adapter opens with, and the one that shows the input as given
EntryNotice(a) ==
    CASE a = "json" -> "\nProcessing JSON data through pipeline..."
      [] a = "csv" -> "\nProcessing CSV data through same pipeline..."
      [] OTHER -> "\nProcessing Stream data through same pipeline..."

InputNotice(a, x) ==
    IF a = "csv" THEN "Input: \"" \o PyText(x) \o "\"" ELSE "Input: " \o PyText(x)

\* the two summary lines of each adapter
SummaryNotice(a) ==
    CASE a = "json" -> << "Transform: Enriched with metadata and validation",
                          "Output: Processed temperature reading: 23.5°C (Normal range)" >>
      [] a = "csv" -> << "Transform: Parsed and structured data",
                         "Output: User activity logged: 1 actions processed" >>
      [] OTHER -> << "Transform: Aggregated and filtered",
                     "Output: Stream summary: 5 readings, avg: 22.1°C" >>

\* what a process call on an adapter leaves behind: the entry notices first,
\* then one execute per stage of its current list, in order, the first on the
\* input as given, then the summary of the adapter, and None returned
AdapterTrace ==
    (run.op \in {"process", "run"} /\ run.target \in Adapters)
        => LET a == run.target
               ev == run.events
               n == Len(Stages(a))
           IN  /\ Len(ev) = n + 4
               /\ ev[1] = Printed(EntryNotice(a))
               /\ ev[2] = Printed(InputNotice(a, payload))
               /\ \A k \in 1..n :
                     /\ ev[2 + k].ev = "execute"
                     /\ ev[2 + k].stage = Stages(a)[k]
                     /\ ev[2 + k].arg = IF k = 1 THEN payload ELSE ev[1 + k].out
               /\ ev[n + 3] = Printed(SummaryNotice(a)[1])
               /\ ev[n + 4] = Printed(SummaryNotice(a)[2])
               /\ Cardinality({k \in 1..Len(ev) : ev[k].text = EntryNotice(a)}) = 1
               /\ run.result = PyNone

\* a run step changes nothing but the record of the call, and what it records
\* is what a direct process call on the same target records
RunIsDispatch ==
    ManagerRun
        => /\ UNCHANGED <<payload, own, ref, bound, added, grown>>
           /\ run'.events = pipeline_process(run'.target, payload).events
           /\ (run.op = "run" /\ run'.target = run.target) => run' = run

\* C14: a process call on an adapter prints the entry notice and the input as
\* given, then runs the inherited fold once over that input, every stage of its
\* current list in order, then prints the summary of the adapter;
\* NexusManager.run makes exactly one such call and keeps nothing between runs.
C14_AdapterOrder == []AdapterTrace /\ [][RunIsDispatch]_vars

\* manager.run on a JSON adapter bound to the three stages of main: two notices,
\* three stages, two summary lines
C14_Witness ==
    /\ run.op = "run" /\ run.target = "json" /\ bound["json"]
    /\ Stages("json") = <<"InputStage", "TransformStage", "OutputStage">>
    /\ Len(run.events) = 7
    /\ run.events[3].ev = "execute" /\ run.events[5].stage = "OutputStage"
    /\ run.events[7].text = "Output: Processed temperature reading: 23.5°C (Normal range)"

\* a Stream adapter with a stage of its own has processed the input directly
C14_WitnessDirect ==
    /\ run.op = "process" /\ run.target = "stream" /\ ~bound["stream"]
    /\ Len(Stages("stream")) >= 1
    /\ Len(run.events) = Len(Stages("stream")) + 4

====
